---- MODULE Spec2Model ----
(***************************************************************************)
(* The peerscanner host actor (host.go): one run loop per host that tests  *)
(* connectivity, registers/deregisters DNS records and rotation groups,     *)
(* pauses after inactivity and reacts to reset / unregister / status /      *)
(* distribution-init signals.                                               *)
(*                                                                          *)
(* Time is counted in units of testPeriod (15 s).  Timestamps are kept as   *)
(* ages (now - timestamp), timers as the time left until they fire.         *)
(***************************************************************************)
EXTENDS Integers, Sequences, FiniteSets, TLC

VARIABLES
    h,                \* the host struct's fields; lastSuccess and lastTest as ages
    dns,              \* names registered with the DNS provider
    rot,              \* rotation groups this host is currently a member of
    resetCh,          \* h.resetCh: buffered names
    unregisterCh,     \* h.unregisterCh: number of buffered signals (0 or 1)
    statusCh,         \* h.statusCh: buffered reply channels (call ids)
    initCfrCh,        \* h.initCfrCh: number of buffered signals (0 or 1)
    pc,               \* where run() is: "top", "select", "testing" or "paused"
    elapsed,          \* time spent so far in the current test cycle
    checkImmediately, \* run()'s local
    periodTimer,      \* time left on periodTimer, Off when not armed
    periodC,          \* periodTimer.C holds a value
    pauseTimer,       \* time left on pauseTimer, Off when not armed
    pauseC,           \* pauseTimer.C holds a value
    calls,            \* the status() calls: position, reply channel sch, result
    resetBlocked,     \* reset() senders blocked on a full resetCh
    initBlocked,      \* initCloudfront() senders blocked on a full initCfrCh
    act,              \* the case the current loop iteration has handled ("unpause"
                      \* stays until the resumed loop handles its next case)
    lastStatus,       \* run()'s s: the status of this iteration's test cycle
    log               \* provider calls, errors and probe log lines of this iteration

vars == <<h, dns, rot, resetCh, unregisterCh, statusCh, initCfrCh, pc, elapsed,
          checkImmediately, periodTimer, periodC, pauseTimer, pauseC, calls,
          resetBlocked, initBlocked, act, lastStatus, log>>

----------------------------------------------------------------------------
(* Program constants, in units of testPeriod.                              *)

testPeriod == 1

ttl == 2 * testPeriod

(* statusTimeout (2 * ttl) and pauseAfter (10 min) scaled down, keeping     *)
(* testPeriod < statusTimeout < pauseAfter.                                 *)
StatusTimeout == 2

PauseAfter == 2

(* Channel capacities, scaled down from 1000.                              *)
ResetCap == 1

StatusCap == 1

UnregisterCap == 1

InitCfrCap == 1

(* Number of status() calls and of concurrently blocked senders.           *)
MaxCalls == 2

MaxBlocked == 1

----------------------------------------------------------------------------
(* Values.                                                                 *)

Names == {"p1", "fl1"}

FallbackNames == {"fl1"}

cfldomain == "getiantem.org"

noCdnPrefix == "nocdn-"

NoRec == <<>>

NoDist == "nil"

Never == -1

Off == -1

Nil == "nil"

DuplicateMsg == "The record already exists."

OtherMsg == "provider error"

Peers == "peers"

PeersNoCdn == "peers-nocdn"

RoundRobin == "roundrobin"

RoundRobinNoCdn == "roundrobin-nocdn"

Fallbacks == "fallbacks"

FallbacksNoCdn == "fallbacks-nocdn"

Statuses == [online : BOOLEAN, connectionRefused : BOOLEAN]

DistStatuses == {"InProgress", "Deployed", "Failed"}

(* The DNS name of a host's CDN and no-CDN record.                         *)
CdnName(n) == <<"", n>>

NoCdnName(n) == <<noCdnPrefix, n>>

fullName(n) == <<n, cfldomain>>

ReportedHosts == {fullName(n) : n \in Names} \cup {<<"", "">>}

isCdnFallback(n) == n \in FallbackNames

isFallback(hh) == isCdnFallback(hh.name)

Max(a, b) == IF a > b THEN a ELSE b

Min(a, b) == IF a < b THEN a ELSE b

----------------------------------------------------------------------------
(* External collaborators: the DNS provider and the rotation groups.       *)

(* What the provider and the groups answer during one run-loop step.       *)
AllGroups == {Peers, PeersNoCdn, RoundRobin, RoundRobinNoCdn, Fallbacks, FallbacksNoCdn}

Envs == [cdnReg : {"ok", "error"}, noCdnReg : {"ok", "error"},
         destroyCdn : {"ok", "error"}, destroyNoCdn : {"ok", "error"},
         grpErr : {{}} \cup {{g} : g \in AllGroups},
         grpDup : BOOLEAN, rev : BOOLEAN]

(* The answers that matter to a step that only registers, and to one that  *)
(* only destroys records.                                                  *)
RegEnvs == {e \in Envs : e.destroyCdn = "ok" /\ e.destroyNoCdn = "ok"}

DestroyEnvs == {e \in Envs : /\ e.cdnReg = "ok" /\ e.noCdnReg = "ok" /\ e.grpErr = {}
                             /\ ~e.grpDup /\ ~e.rev}

(* createRecord(name, ip) -> record | DuplicateError | Error               *)
cflRegister(d, n, out) ==
    IF out = "error" THEN [dns |-> d, rec |-> NoRec, err |-> OtherMsg]
    ELSE IF n \in d THEN [dns |-> d, rec |-> NoRec, err |-> DuplicateMsg]
    ELSE [dns |-> d \cup {n}, rec |-> n, err |-> Nil]

(* destroyRecord(record) -> ok | Error                                     *)
cflDestroyRecord(d, rec, out) ==
    IF out = "error" THEN [dns |-> d, err |-> OtherMsg]
    ELSE [dns |-> d \ {rec}, err |-> Nil]

(* group.register(h): add the host; adding a member again is a no-op or    *)
(* reports the duplicate condition.                                        *)
groupRegister(r, g, e) ==
    IF g \in e.grpErr THEN [rot |-> r, err |-> OtherMsg]
    ELSE IF g \in r THEN [rot |-> r, err |-> IF e.grpDup THEN DuplicateMsg ELSE Nil]
    ELSE [rot |-> r \cup {g}, err |-> Nil]

(* group.deregister(h): remove the host; removing an absent one is a no-op *)
groupDeregister(r, g) == r \ {g}

isDuplicateError(err) == err = DuplicateMsg

(* The groups of a map in one of the orders a range over it can take.      *)
SeqOf(S) == CHOOSE s \in [1..Cardinality(S) -> S] : {s[i] : i \in 1..Cardinality(S)} = S

Reverse(s) == [i \in 1..Len(s) |-> s[Len(s) + 1 - i]]

RangeOver(S, e) == IF e.rev THEN Reverse(SeqOf(S)) ELSE SeqOf(S)

----------------------------------------------------------------------------
(* Functions for managing DNS.  A world w is [h, dns, rot, err, log]: the  *)
(* host, the provider's records, the memberships, the error returned by    *)
(* the function just run and the calls made so far in this step.           *)

World(hh, d, r) == [h |-> hh, dns |-> d, rot |-> r, err |-> Nil, log |-> {}]

(* registerCdnHost without the check for a record already held            *)
registerCdnHostAlways(w, e) ==
    LET r == cflRegister(w.dns, CdnName(w.h.name), e.cdnReg)
        l == w.log \cup {"createCdn"}
    IN IF r.err = Nil \/ isDuplicateError(r.err)
       THEN [w EXCEPT !.h.cdnRecord = r.rec, !.dns = r.dns, !.err = Nil,
                      !.log = IF r.err = Nil THEN l ELSE l \cup {"createCdnDup"}]
       ELSE [w EXCEPT !.err = r.err, !.log = l \cup {"createCdnErr"}]

registerCdnHost(w, e) ==
    IF w.h.cdnRecord # NoRec THEN [w EXCEPT !.err = Nil]
    ELSE LET r == cflRegister(w.dns, CdnName(w.h.name), e.cdnReg)
             l == w.log \cup {"createCdn"}
         IN IF r.err = Nil \/ isDuplicateError(r.err)
            THEN [w EXCEPT !.h.cdnRecord = r.rec, !.dns = r.dns, !.err = Nil,
                           !.log = IF r.err = Nil THEN l ELSE l \cup {"createCdnDup"}]
            ELSE [w EXCEPT !.err = r.err, !.log = l \cup {"createCdnErr"}]

registerNoCdnHost(w, e) ==
    IF w.h.noCdnRecord # NoRec THEN [w EXCEPT !.err = Nil]
    ELSE LET r == cflRegister(w.dns, NoCdnName(w.h.name), e.noCdnReg)
             l == w.log \cup {"createNoCdn"}
         IN IF r.err = Nil \/ isDuplicateError(r.err)
            THEN [w EXCEPT !.h.noCdnRecord = r.rec, !.dns = r.dns, !.err = Nil,
                           !.log = IF r.err = Nil THEN l ELSE l \cup {"createNoCdnDup"}]
            ELSE [w EXCEPT !.err = r.err, !.log = l \cup {"createNoCdnErr"}]

RECURSIVE registerToRotations(_, _, _)
registerToRotations(w, groups, e) ==
    IF groups = <<>> THEN [w EXCEPT !.err = Nil]
    ELSE LET r == groupRegister(w.rot, Head(groups), e)
         IN IF r.err # Nil /\ ~isDuplicateError(r.err)
            THEN [w EXCEPT !.err = r.err, !.log = @ \cup {"groupErr"}]
            ELSE registerToRotations([w EXCEPT !.rot = r.rot], Tail(groups), e)

registerToCdnRotations(w, e) == registerToRotations(w, RangeOver(w.h.cdnGroups, e), e)

registerToNoCdnRotations(w, e) == registerToRotations(w, RangeOver(w.h.noCdnGroups, e), e)

(* registerCdn that goes on to the rotations whatever registerCdnHost      *)
(* returned                                                                *)
registerCdnDespiteError(w, e) == registerToCdnRotations(registerCdnHost(w, e), e)

registerCdn(w, e) ==
    LET w1 == registerCdnHost(w, e)
    IN IF w1.err # Nil THEN w1 ELSE registerToCdnRotations(w1, e)

registerNoCdn(w, e) ==
    LET w1 == registerNoCdnHost(w, e)
    IN IF w1.err # Nil THEN w1 ELSE registerToNoCdnRotations(w1, e)

(* register that asks only for a distribution, whatever its status        *)
registerAnyDist(w, e) ==
    LET w1 == registerCdn(w, e)
    IN IF w1.err # Nil THEN w1
       ELSE IF w1.h.cfrDist # NoDist
            THEN registerNoCdn(w1, e)
            ELSE [w1 EXCEPT !.err = Nil]

(* register without the Deployed gate on the no-CDN registration          *)
registerUngated(w, e) ==
    LET w1 == registerCdn(w, e)
    IN IF w1.err # Nil THEN w1 ELSE registerNoCdn(w1, e)

register(w, e) ==
    LET w1 == registerCdn(w, e)
    IN IF w1.err # Nil THEN w1
       ELSE IF w1.h.cfrDist # NoDist /\ w1.h.cfrDist = "Deployed"
            THEN registerNoCdn(w1, e)
            ELSE [w1 EXCEPT !.err = Nil]

doDeregisterCdnHost(w, e) ==
    LET r == cflDestroyRecord(w.dns, w.h.cdnRecord, e.destroyCdn)
        l == w.log \cup {IF w.h.cdnRecord = NoRec THEN "destroyNil" ELSE "destroyCdn"}
    IN IF r.err # Nil THEN [w EXCEPT !.log = l \cup {"destroyCdnErr"}]
       ELSE [w EXCEPT !.h.cdnRecord = NoRec, !.dns = r.dns, !.log = l]

doDeregisterNoCdnHost(w, e) ==
    LET r == cflDestroyRecord(w.dns, w.h.noCdnRecord, e.destroyNoCdn)
        l == w.log \cup {IF w.h.noCdnRecord = NoRec THEN "destroyNil" ELSE "destroyNoCdn"}
    IN IF r.err # Nil THEN [w EXCEPT !.log = l \cup {"destroyNoCdnErr"}]
       ELSE [w EXCEPT !.h.noCdnRecord = NoRec, !.dns = r.dns, !.log = l]

(* deregisterCdnHost without the fallback check                            *)
deregisterCdnHostAnyClass(w, e) ==
    IF w.h.cdnRecord = NoRec THEN w ELSE doDeregisterCdnHost(w, e)

deregisterCdnHost(w, e) ==
    IF w.h.cdnRecord = NoRec THEN w
    ELSE IF isFallback(w.h) THEN w
    ELSE doDeregisterCdnHost(w, e)

deregisterNoCdnHost(w, e) ==
    IF w.h.noCdnRecord = NoRec THEN w
    ELSE IF isFallback(w.h) THEN w
    ELSE doDeregisterNoCdnHost(w, e)

RECURSIVE deregisterFromGroups(_, _)
deregisterFromGroups(r, groups) ==
    IF groups = <<>> THEN r
    ELSE deregisterFromGroups(groupDeregister(r, Head(groups)), Tail(groups))

(* deregisterFromRotations that leaves the no-CDN groups alone             *)
deregisterFromCdnRotations(w) ==
    [w EXCEPT !.rot = deregisterFromGroups(w.rot, SeqOf(w.h.cdnGroups))]

deregisterFromRotations(w) ==
    [w EXCEPT !.rot = deregisterFromGroups(deregisterFromGroups(@, SeqOf(w.h.cdnGroups)),
                                           SeqOf(w.h.noCdnGroups))]

deregister(w, e) ==
    deregisterFromRotations(deregisterNoCdnHost(deregisterCdnHost(w, e), e))

(* doReset that leaves lastTest as it was                                  *)
doResetKeepingLastTest(w, newName, e) ==
    LET w0 == [w EXCEPT !.h.lastSuccess = 0]
    IN IF newName # w0.h.name
       THEN LET w1 == IF w0.h.cdnRecord # NoRec
                      THEN doDeregisterNoCdnHost(doDeregisterCdnHost(w0, e), e)
                      ELSE w0
            IN [w1 EXCEPT !.h.name = newName]
       ELSE w0

(* doReset that spares the records of a fallback, as deregister() does     *)
doResetSparingFallbacks(w, newName, e) ==
    LET w0 == [w EXCEPT !.h.lastSuccess = 0, !.h.lastTest = Never]
    IN IF newName # w0.h.name
       THEN LET w1 == IF w0.h.cdnRecord # NoRec /\ ~isFallback(w0.h)
                      THEN doDeregisterNoCdnHost(doDeregisterCdnHost(w0, e), e)
                      ELSE w0
            IN [w1 EXCEPT !.h.name = newName]
       ELSE w0

(* doReset: lastSuccess = now, lastTest = the zero time; a new name first  *)
(* destroys the records held, when a CDN record is held.                   *)
doReset(w, newName, e) ==
    LET w0 == [w EXCEPT !.h.lastSuccess = 0, !.h.lastTest = Never]
    IN IF newName # w0.h.name
       THEN LET w1 == IF w0.h.cdnRecord # NoRec
                      THEN doDeregisterNoCdnHost(doDeregisterCdnHost(w0, e), e)
                      ELSE w0
            IN [w1 EXCEPT !.h.name = newName]
       ELSE w0

(* doInitCfrDist creating a distribution whenever none is deployed         *)
doInitCfrDistRecreating(w, refreshed, created) ==
    LET w1 == IF w.h.cfrDist # NoDist /\ w.h.cfrDist = "InProgress"
              THEN [w EXCEPT !.h.cfrDist = refreshed, !.log = @ \cup {"refreshDist"}]
              ELSE w
    IN IF w1.h.cfrDist # "Deployed"
       THEN [w1 EXCEPT !.h.cfrDist = created,
                       !.log = @ \cup {IF created = NoDist THEN "createDistErr" ELSE "createDist"}]
       ELSE w1

(* doInitCfrDist: refresh an InProgress distribution; create one when none *)
(* is held.  refreshed is the status the provider reports, created the     *)
(* result of CreateDistribution (NoDist on error).                         *)
doInitCfrDist(w, refreshed, created) ==
    LET w1 == IF w.h.cfrDist # NoDist /\ w.h.cfrDist = "InProgress"
              THEN [w EXCEPT !.h.cfrDist = refreshed, !.log = @ \cup {"refreshDist"}]
              ELSE w
    IN IF w1.h.cfrDist = NoDist
       THEN [w1 EXCEPT !.h.cfrDist = created,
                       !.log = @ \cup {IF created = NoDist THEN "createDistErr" ELSE "createDist"}]
       ELSE w1

----------------------------------------------------------------------------
(* Connectivity prober.  A probe attempt p is what the network does: the   *)
(* raw dial, the proxied HEAD's status code (0: the request failed) and    *)
(* the virtual host the transport reports.                                 *)

proxyAttempts == 1

Attempts == [dial : {"ok", "refused", "timeout"}, code : {200, 301, 500, 0},
             reported : ReportedHosts]

Probes == [attempts : [1..proxyAttempts -> Attempts], timedOut : BOOLEAN]

Status(online, refused) == [online |-> online, connectionRefused |-> refused]

(* <<success, connectionRefused>> of one attempt                            *)
doIsAbleToProxy(p) ==
    IF p.dial # "ok" THEN <<FALSE, p.dial = "refused">>
    ELSE IF p.code = 0 THEN <<FALSE, FALSE>>
    ELSE IF p.code # 200 /\ p.code # 301 THEN <<FALSE, FALSE>>
    ELSE <<TRUE, FALSE>>

(* OnFirstResponse: a proxied response sets h.reportedHost.  The field is  *)
(* read only right after a successful attempt, which has just set it, so   *)
(* it is carried through the attempts and not kept between test cycles.    *)
onFirstResponse(reportedHost, p) ==
    IF p.dial = "ok" /\ p.code # 0 THEN p.reported ELSE reportedHost

(* isAbleToProxy without the check of the reported host                   *)
RECURSIVE isAbleToProxyUnchecked(_, _, _, _)
isAbleToProxyUnchecked(hh, reportedHost, attempts, i) ==
    IF i > proxyAttempts THEN Status(FALSE, FALSE)
    ELSE LET r == doIsAbleToProxy(attempts[i])
         IN IF r[1] \/ r[2]
            THEN Status(r[1], r[2])
            ELSE isAbleToProxyUnchecked(hh, reportedHost, attempts, i + 1)

(* isAbleToProxy from attempt i on                                         *)
RECURSIVE isAbleToProxyFrom(_, _, _, _)
isAbleToProxyFrom(hh, reportedHost, attempts, i) ==
    IF i > proxyAttempts THEN Status(FALSE, FALSE)
    ELSE LET r == doIsAbleToProxy(attempts[i])
             rh == onFirstResponse(reportedHost, attempts[i])
         IN IF r[1] \/ r[2]
            THEN Status(r[1] /\ rh = fullName(hh.name), r[2])
            ELSE isAbleToProxyFrom(hh, rh, attempts, i + 1)

isAbleToProxy(hh, attempts) == isAbleToProxyFrom(hh, <<"", "">>, attempts, 1)

(* isAbleToProxy logs "... is reporting an unexpected host ..." when an    *)
(* attempt succeeded and h.reportedHost differs from h.fullName().         *)
RECURSIVE unexpectedHostFrom(_, _, _, _)
unexpectedHostFrom(hh, reportedHost, attempts, i) ==
    IF i > proxyAttempts THEN FALSE
    ELSE LET r == doIsAbleToProxy(attempts[i])
             rh == onFirstResponse(reportedHost, attempts[i])
         IN IF r[1] \/ r[2]
            THEN r[1] /\ rh # fullName(hh.name)
            ELSE unexpectedHostFrom(hh, rh, attempts, i + 1)

(* What run() and isAbleToProxy log about the probe of a test cycle.       *)
probeLog(hh, probe) ==
    IF probe.timedOut THEN {"timedOut"}
    ELSE IF unexpectedHostFrom(hh, <<"", "">>, probe.attempts, 1)
         THEN {"unexpectedHost"}
         ELSE {}

(* The status of the probe whether or not ttl passed before it returned    *)
testStatusUnbounded(hh, probe) == isAbleToProxy(hh, probe.attempts)

(* withtimeout.Do(ttl, isAbleToProxy): no status when the probe timed out  *)
testStatus(hh, probe) ==
    IF probe.timedOut THEN Status(FALSE, FALSE)
    ELSE isAbleToProxy(hh, probe.attempts)

----------------------------------------------------------------------------
(* Timers (time.Timer): Reset re-arms the timer and leaves a value that is *)
(* already in the channel where it is.                                     *)

timerReset(d) == Max(d, 0)

(* waitTime := h.lastTest.Add(testPeriod).Sub(time.Now())                  *)
waitTime(hh) == IF hh.lastTest = Never THEN 0 - 1 ELSE testPeriod - hh.lastTest

pauseTime(hh) == PauseAfter - hh.lastSuccess

----------------------------------------------------------------------------
(* The status() calls.                                                     *)

CallIds == 1..MaxCalls

NewCall == [st |-> "new", sch |-> <<>>, res |-> <<>>, age |-> 0, wait |-> Off]

Result(online, refused, timedOut) ==
    [online |-> online, connectionRefused |-> refused, timedOut |-> timedOut]

(* reportStatus without its for loop: one receive, one reply               *)
reportStatusOnce(cs, s) ==
    [c \in CallIds |->
        IF statusCh # <<>> /\ Head(statusCh) = c THEN [cs[c] EXCEPT !.sch = Append(@, s)]
        ELSE cs[c]]

(* reportStatus sending on every reply channel made so far, queued or not  *)
reportStatusResending(cs, s) ==
    [c \in CallIds |->
        IF cs[c].st = "new" THEN cs[c]
        ELSE IF cs[c].st = "blocked"
             THEN [cs[c] EXCEPT !.st = "waiting", !.sch = Append(@, s), !.wait = StatusTimeout]
             ELSE [cs[c] EXCEPT !.sch = Append(@, s)]]

(* reportStatus: every queued reply channel, and every sender the receive  *)
(* lets in, gets s.                                                        *)
reportStatus(cs, s) ==
    [c \in CallIds |->
        IF \E i \in 1..Len(statusCh) : statusCh[i] = c THEN [cs[c] EXCEPT !.sch = Append(@, s)]
        ELSE IF cs[c].st = "blocked"
             THEN [cs[c] EXCEPT !.st = "waiting", !.sch = Append(@, s), !.wait = StatusTimeout]
             ELSE cs[c]]

----------------------------------------------------------------------------
(* newHost and the start of run().                                         *)

newHost(name, record) ==
    [name |-> name, cdnRecord |-> record, noCdnRecord |-> NoRec, cfrDist |-> NoDist,
     cdnGroups |-> IF isCdnFallback(name) THEN {RoundRobin, Fallbacks} ELSE {Peers},
     noCdnGroups |-> IF isCdnFallback(name) THEN {RoundRobinNoCdn, FallbacksNoCdn}
                     ELSE {PeersNoCdn},
     lastSuccess |-> 0, lastTest |-> 0]

Init ==
    /\ \E n \in Names : \E rec \in {NoRec, CdnName(n)} :
          /\ h = newHost(n, rec)
          /\ dns \in IF rec = NoRec THEN {{}, {CdnName(n)}} ELSE {{rec}}
    /\ rot = {}
    /\ resetCh = <<>>
    /\ unregisterCh = 0
    /\ statusCh = <<>>
    /\ initCfrCh = 0
    /\ pc = "top"
    /\ elapsed = 0
    /\ checkImmediately = TRUE
    /\ periodTimer = 0
    /\ periodC = FALSE
    /\ pauseTimer = 0
    /\ pauseC = FALSE
    /\ calls = [c \in CallIds |-> NewCall]
    /\ resetBlocked = <<>>
    /\ initBlocked = 0
    /\ act = "loop"
    /\ lastStatus = <<>>
    /\ log = {}

----------------------------------------------------------------------------
(* The API: status(), reset(), unregister(), initCloudfront().             *)

(* status(): send the reply channel (blocking while statusCh is full),     *)
(* then wait for the reply or for statusTimeout.                           *)
CallStatus(c) ==
    /\ calls[c].st = "new"
    /\ \A d \in CallIds : d < c => calls[d].st # "new"
    /\ IF Len(statusCh) < StatusCap
       THEN /\ statusCh' = Append(statusCh, c)
            /\ calls' = [calls EXCEPT ![c].st = "waiting", ![c].wait = StatusTimeout]
       ELSE /\ calls' = [calls EXCEPT ![c].st = "blocked"]
            /\ UNCHANGED statusCh
    /\ UNCHANGED <<h, dns, rot, resetCh, unregisterCh, initCfrCh, pc, elapsed, checkImmediately,
                   periodTimer, periodC, pauseTimer, pauseC, resetBlocked, initBlocked,
                   act, lastStatus, log>>

StatusReply(c) ==
    /\ calls[c].st = "waiting"
    /\ calls[c].sch # <<>>
    /\ calls' = [calls EXCEPT ![c].st = "done", ![c].sch = Tail(@), ![c].wait = Off,
                              ![c].res = <<Result(Head(calls[c].sch).online,
                                                  Head(calls[c].sch).connectionRefused,
                                                  FALSE)>>]
    /\ UNCHANGED <<h, dns, rot, resetCh, unregisterCh, statusCh, initCfrCh, pc, elapsed,
                   checkImmediately, periodTimer, periodC, pauseTimer, pauseC,
                   resetBlocked, initBlocked, act, lastStatus, log>>

StatusTimedOut(c) ==
    /\ calls[c].st = "waiting"
    /\ calls[c].wait = 0
    /\ calls' = [calls EXCEPT ![c].st = "done", ![c].wait = Off,
                              ![c].res = <<Result(FALSE, FALSE, TRUE)>>]
    /\ UNCHANGED <<h, dns, rot, resetCh, unregisterCh, statusCh, initCfrCh, pc, elapsed,
                   checkImmediately, periodTimer, periodC, pauseTimer, pauseC,
                   resetBlocked, initBlocked, act, lastStatus, log>>

(* reset(newName): h.resetCh <- newName                                    *)
CallReset(n) ==
    /\ IF Len(resetCh) < ResetCap
       THEN resetCh' = Append(resetCh, n) /\ UNCHANGED resetBlocked
       ELSE /\ Len(resetBlocked) < MaxBlocked
            /\ resetBlocked' = Append(resetBlocked, n)
            /\ UNCHANGED resetCh
    /\ UNCHANGED <<h, dns, rot, unregisterCh, statusCh, initCfrCh, pc, elapsed, checkImmediately,
                   periodTimer, periodC, pauseTimer, pauseC, calls, initBlocked,
                   act, lastStatus, log>>

(* unregister(): select { case h.unregisterCh <- nil: default: }           *)
CallUnregister ==
    /\ unregisterCh' = IF unregisterCh < UnregisterCap THEN unregisterCh + 1
                       ELSE unregisterCh
    /\ UNCHANGED <<h, dns, rot, resetCh, statusCh, initCfrCh, pc, elapsed, checkImmediately,
                   periodTimer, periodC, pauseTimer, pauseC, calls, resetBlocked,
                   initBlocked, act, lastStatus, log>>

(* initCloudfront(): h.initCfrCh <- nil                                    *)
CallInitCloudfront ==
    /\ IF initCfrCh < InitCfrCap
       THEN initCfrCh' = initCfrCh + 1 /\ UNCHANGED initBlocked
       ELSE /\ initBlocked < MaxBlocked
            /\ initBlocked' = initBlocked + 1
            /\ UNCHANGED initCfrCh
    /\ UNCHANGED <<h, dns, rot, resetCh, unregisterCh, statusCh, pc, elapsed, checkImmediately,
                   periodTimer, periodC, pauseTimer, pauseC, calls, resetBlocked,
                   act, lastStatus, log>>

(* Receiving from a channel lets the longest-blocked sender in.            *)
recvReset == IF resetBlocked = <<>> THEN Tail(resetCh)
             ELSE Append(Tail(resetCh), Head(resetBlocked))

recvResetBlocked == IF resetBlocked = <<>> THEN resetBlocked ELSE Tail(resetBlocked)

recvInitCfr == IF initBlocked = 0 THEN initCfrCh - 1 ELSE initCfrCh

recvInitBlocked == IF initBlocked = 0 THEN 0 ELSE initBlocked - 1

----------------------------------------------------------------------------
(* run(): the top of the loop re-arms the timers, then the select.         *)

LoopTop ==
    /\ pc = "top"
    /\ periodTimer' = IF ~checkImmediately THEN timerReset(waitTime(h)) ELSE periodTimer
    /\ pauseTimer' = timerReset(pauseTime(h))
    /\ pc' = "select"
    /\ act' = IF act = "unpause" THEN "unpause" ELSE "loop"
    /\ lastStatus' = <<>>
    /\ log' = {}
    /\ UNCHANGED <<h, dns, rot, resetCh, unregisterCh, statusCh, initCfrCh, elapsed,
                   checkImmediately, periodC, pauseC, calls, resetBlocked, initBlocked>>

(* case newName := <-h.resetCh: h.doReset(newName)                         *)
HandleResetWith(E) ==
    /\ pc = "select"
    /\ resetCh # <<>>
    /\ \E e \in E :
         LET w == doReset(World(h, dns, rot), Head(resetCh), e)
         IN h' = w.h /\ dns' = w.dns /\ rot' = w.rot /\ log' = w.log
    /\ resetCh' = recvReset
    /\ resetBlocked' = recvResetBlocked
    /\ pc' = "top"
    /\ act' = "reset"
    /\ UNCHANGED <<elapsed, unregisterCh, statusCh, initCfrCh, checkImmediately, periodTimer,
                   periodC, pauseTimer, pauseC, calls, initBlocked, lastStatus>>

(* pause(): h.deregister(), then wait for the next reset                   *)
pause(e) ==
    LET w == deregister(World(h, dns, rot), e)
    IN h' = w.h /\ dns' = w.dns /\ rot' = w.rot /\ log' = w.log /\ pc' = "paused"

(* case <-h.unregisterCh: h.pause()                                        *)
HandleUnregisterWith(E) ==
    /\ pc = "select"
    /\ unregisterCh > 0
    /\ unregisterCh' = unregisterCh - 1
    /\ \E e \in E : pause(e)
    /\ act' = "unregister"
    /\ UNCHANGED <<elapsed, resetCh, statusCh, initCfrCh, checkImmediately, periodTimer, periodC,
                   pauseTimer, pauseC, calls, resetBlocked, initBlocked, lastStatus>>

(* case <-h.initCfrCh: h.doInitCfrDist()                                   *)
HandleInitCfrWith(R, C) ==
    /\ pc = "select"
    /\ initCfrCh > 0
    /\ initCfrCh' = recvInitCfr
    /\ initBlocked' = recvInitBlocked
    /\ \E refreshed \in R : \E created \in C :
         LET w == doInitCfrDist(World(h, dns, rot), refreshed, created)
         IN h' = w.h /\ log' = w.log
    /\ pc' = "top"
    /\ act' = "initCfr"
    /\ UNCHANGED <<elapsed, dns, rot, resetCh, unregisterCh, statusCh, checkImmediately,
                   periodTimer, periodC, pauseTimer, pauseC, calls, resetBlocked,
                   lastStatus>>

(* case <-pauseTimer.C: h.pause()                                          *)
HandlePauseTimerWith(E) ==
    /\ pc = "select"
    /\ pauseC
    /\ pauseC' = FALSE
    /\ \E e \in E : pause(e)
    /\ act' = "pauseTimer"
    /\ UNCHANGED <<elapsed, resetCh, unregisterCh, statusCh, initCfrCh, checkImmediately,
                   periodTimer, periodC, pauseTimer, calls, resetBlocked, initBlocked,
                   lastStatus>>

(* case <-periodTimer.C: start a test cycle, withtimeout.Do(ttl, ...)        *)
HandlePeriodTimer ==
    /\ pc = "select"
    /\ periodC
    /\ periodC' = FALSE
    /\ pc' = "testing"
    /\ elapsed' = 0
    /\ UNCHANGED <<h, dns, rot, resetCh, unregisterCh, statusCh, initCfrCh,
                   checkImmediately, periodTimer, pauseTimer, pauseC, calls,
                   resetBlocked, initBlocked, act, lastStatus, log>>

(* The probe returns, or ttl has passed: report the status, then register  *)
(* or deregister from the rotations.                                       *)
FinishTestWith(P, E) ==
    /\ pc = "testing"
    /\ \E probe \in P :
         LET s == testStatus(h, probe)
             h2 == [h EXCEPT !.lastTest = 0]
         IN /\ probe.timedOut => elapsed = ttl
            /\ lastStatus' = <<s>>
            /\ calls' = reportStatus(calls, s)
            /\ statusCh' = <<>>
            /\ IF s.online
               THEN \E e \in E :
                      LET w == register(World([h2 EXCEPT !.lastSuccess = 0], dns, rot), e)
                      IN h' = w.h /\ dns' = w.dns /\ rot' = w.rot
                         /\ log' = (IF w.err # Nil THEN w.log \cup {"registerErr"} ELSE w.log)
                                    \cup probeLog(h, probe)
               ELSE LET w == deregisterFromRotations(World(h2, dns, rot))
                    IN h' = w.h /\ dns' = w.dns /\ rot' = w.rot
                       /\ log' = w.log \cup probeLog(h, probe)
    /\ checkImmediately' = FALSE
    /\ pc' = "top"
    /\ elapsed' = 0
    /\ act' = "test"
    /\ UNCHANGED <<resetCh, unregisterCh, initCfrCh, periodTimer, periodC, pauseTimer,
                   pauseC, resetBlocked, initBlocked>>

(* pause(): case newName := <-h.resetCh: h.doReset(newName); return        *)
PausedResetWith(E) ==
    /\ pc = "paused"
    /\ resetCh # <<>>
    /\ \E e \in E :
         LET w == doReset(World(h, dns, rot), Head(resetCh), e)
         IN h' = w.h /\ dns' = w.dns /\ rot' = w.rot /\ log' = w.log
    /\ resetCh' = recvReset
    /\ resetBlocked' = recvResetBlocked
    /\ checkImmediately' = TRUE
    /\ pc' = "top"
    /\ act' = "unpause"
    /\ UNCHANGED <<elapsed, unregisterCh, statusCh, initCfrCh, periodTimer, periodC, pauseTimer,
                   pauseC, calls, initBlocked, lastStatus>>

(* pause(): case <-h.unregisterCh: ignored                                 *)
PausedUnregister ==
    /\ pc = "paused"
    /\ unregisterCh > 0
    /\ unregisterCh' = unregisterCh - 1
    /\ act' = "ignoreUnregister"
    /\ UNCHANGED <<h, dns, rot, resetCh, statusCh, initCfrCh, pc, elapsed, checkImmediately,
                   periodTimer, periodC, pauseTimer, pauseC, calls, resetBlocked,
                   initBlocked, lastStatus, log>>

----------------------------------------------------------------------------
(* Time.                                                                   *)

(* A timer whose time has come sends on its channel, unless a value is     *)
(* already there.                                                          *)
FirePeriodTimer ==
    /\ periodTimer = 0
    /\ periodTimer' = Off
    /\ periodC' = TRUE
    /\ UNCHANGED <<h, dns, rot, resetCh, unregisterCh, statusCh, initCfrCh, pc, elapsed,
                   checkImmediately, pauseTimer, pauseC, calls, resetBlocked, initBlocked,
                   act, lastStatus, log>>

FirePauseTimer ==
    /\ pauseTimer = 0
    /\ pauseTimer' = Off
    /\ pauseC' = TRUE
    /\ UNCHANGED <<h, dns, rot, resetCh, unregisterCh, statusCh, initCfrCh, pc, elapsed,
                   checkImmediately, periodTimer, periodC, calls, resetBlocked,
                   initBlocked, act, lastStatus, log>>

(* The run loop has nothing to do: it waits in a select with no case ready *)
(* or for the probe.                                                       *)
Waiting ==
    \/ pc = "select" /\ resetCh = <<>> /\ unregisterCh = 0 /\ initCfrCh = 0
                     /\ ~pauseC /\ ~periodC
    \/ pc = "paused" /\ resetCh = <<>> /\ unregisterCh = 0
    \/ pc = "testing" /\ elapsed < ttl

(* One unit of time passes; due timers, due callers and a run loop that    *)
(* can take a step go first.                                               *)
Tick ==
    /\ Waiting
    /\ periodTimer # 0
    /\ pauseTimer # 0
    /\ elapsed' = IF pc = "testing" THEN elapsed + 1 ELSE elapsed
    /\ \A c \in CallIds : calls[c].st = "waiting" => calls[c].wait > 0 /\ calls[c].sch = <<>>
    /\ h' = [h EXCEPT !.lastSuccess = Min(@ + 1, PauseAfter),
                      !.lastTest = IF @ = Never THEN Never ELSE Min(@ + 1, testPeriod)]
    /\ periodTimer' = IF periodTimer > 0 THEN periodTimer - 1 ELSE periodTimer
    /\ pauseTimer' = IF pauseTimer > 0 THEN pauseTimer - 1 ELSE pauseTimer
    /\ calls' = [c \in CallIds |->
                   IF calls[c].st = "waiting"
                   THEN [calls[c] EXCEPT !.age = Min(@ + 1, StatusTimeout + 1),
                                         !.wait = @ - 1]
                   ELSE IF calls[c].st = "blocked"
                        THEN [calls[c] EXCEPT !.age = Min(@ + 1, StatusTimeout + 1)]
                        ELSE calls[c]]
    /\ UNCHANGED <<dns, rot, resetCh, unregisterCh, statusCh, initCfrCh, pc,
                   checkImmediately, periodC, pauseC, resetBlocked, initBlocked,
                   act, lastStatus, log>>

----------------------------------------------------------------------------

(* The run loop's steps against everything the provider, the groups and   *)
(* the network can answer.                                                 *)
HandleReset == HandleResetWith(DestroyEnvs)

HandleUnregister == HandleUnregisterWith(DestroyEnvs)

HandleInitCfr == HandleInitCfrWith(DistStatuses, DistStatuses \cup {NoDist})

HandlePauseTimer == HandlePauseTimerWith(DestroyEnvs)

FinishTest == FinishTestWith(Probes, RegEnvs)

PausedReset == PausedResetWith(DestroyEnvs)

----------------------------------------------------------------------------
(* The answers to the calls a step can make for host hh (an answer to a    *)
(* call that is not made changes nothing).                                 *)
RegEnvsFor(hh, r) ==
    {e \in RegEnvs :
        /\ e.grpErr \subseteq hh.cdnGroups \cup (IF hh.cfrDist = "Deployed"
                                                 THEN hh.noCdnGroups ELSE {})
        /\ hh.cdnRecord # NoRec => e.cdnReg = "ok"
        /\ (hh.noCdnRecord # NoRec \/ hh.cfrDist # "Deployed") => e.noCdnReg = "ok"
        /\ Cardinality(hh.cdnGroups) = 1 => ~e.rev
        /\ r = {} => ~e.grpDup}

DestroyEnvsFor(hh) ==
    {e \in DestroyEnvs :
        /\ hh.cdnRecord = NoRec => e.destroyCdn = "ok"
        /\ hh.noCdnRecord = NoRec => e.destroyNoCdn = "ok"}

(* A provider and groups that never fail.                                  *)
OkEnv == {e \in DestroyEnvs : e.destroyCdn = "ok" /\ e.destroyNoCdn = "ok"}

(* One probe for each way a test cycle can end.                            *)
SomeProbes(hh) ==
    {p \in Probes :
        \/ /\ p.attempts[1].dial = "ok" /\ p.attempts[1].code \in {200, 500}
           /\ p.attempts[1].reported \in ReportedHosts
        \/ /\ p.attempts[1].dial = "refused" /\ p.attempts[1].code = 0
           /\ p.attempts[1].reported = <<"", "">>}

(* No signal is pending and the run loop is not between two selects.       *)
Quiet == resetCh = <<>> /\ unregisterCh = 0 /\ initCfrCh = 0 /\ pc # "top"

Next ==
    \/ \E c \in CallIds : CallStatus(c)
    \/ \E c \in CallIds : StatusReply(c)
    \/ \E c \in CallIds : StatusTimedOut(c)
    \/ \E n \in Names : CallReset(n)
    \/ CallUnregister
    \/ CallInitCloudfront
    \/ LoopTop
    \/ HandleReset
    \/ HandleUnregister
    \/ HandleInitCfr
    \/ HandlePauseTimer
    \/ HandlePeriodTimer
    \/ FinishTest
    \/ PausedReset
    \/ PausedUnregister
    \/ FirePeriodTimer
    \/ FirePauseTimer
    \/ Tick

Spec == Init /\ [][Next]_vars

----------------------------------------------------------------------------
(* The DNS and rotation side: the run loop against a provider and groups   *)
(* that may fail, with renames and the distribution lifecycle.  Signals    *)
(* arrive one at a time, a probe returns within the time unit it started   *)
(* in, and there are no status() callers.                                  *)
NextDns ==
    \/ \E n \in Names : Quiet /\ CallReset(n)
    \/ Quiet /\ CallUnregister
    \/ Quiet /\ CallInitCloudfront
    \/ LoopTop
    \/ HandleResetWith(DestroyEnvsFor(h))
    \/ HandleUnregisterWith(DestroyEnvsFor(h))
    \/ HandleInitCfr
    \/ HandlePauseTimerWith(DestroyEnvsFor(h))
    \/ HandlePeriodTimer
    \/ FinishTestWith(SomeProbes(h), RegEnvsFor(h, rot))
    \/ PausedResetWith(DestroyEnvsFor(h))
    \/ PausedUnregister
    \/ FirePeriodTimer
    \/ FirePauseTimer
    \/ pc # "testing" /\ Tick

SpecDns == Init /\ [][NextDns]_vars

----------------------------------------------------------------------------
(* The status() side: two callers against the run loop of a peer whose     *)
(* provider and groups never fail; resets keep the name.                   *)
InitStatus == Init /\ h.name = "p1" /\ h.cdnRecord = NoRec /\ dns = {}

InitBoth == Init /\ h.cdnRecord = NoRec /\ dns = {}

NextStatus ==
    \/ \E c \in CallIds : CallStatus(c)
    \/ \E c \in CallIds : StatusReply(c)
    \/ \E c \in CallIds : StatusTimedOut(c)
    \/ Quiet /\ CallReset("p1")
    \/ Quiet /\ CallUnregister
    \/ LoopTop
    \/ HandleResetWith(OkEnv)
    \/ HandleUnregisterWith(OkEnv)
    \/ HandlePauseTimerWith(OkEnv)
    \/ HandlePeriodTimer
    \/ FinishTestWith(SomeProbes(h), OkEnv)
    \/ PausedResetWith(OkEnv)
    \/ PausedUnregister
    \/ FirePeriodTimer
    \/ FirePauseTimer
    \/ Tick

SpecStatus == InitStatus /\ [][NextStatus]_vars

(* The signal side: resets (with renames), unregisters and distribution    *)
(* inits, several pending at a time, against the run loop of a host built  *)
(* as a peer; the provider and the groups never fail and no sender finds   *)
(* its channel full.                                                       *)
NextSignals ==
    \/ \E n \in Names : Len(resetCh) < ResetCap /\ CallReset(n)
    \/ CallUnregister
    \/ initCfrCh < InitCfrCap /\ CallInitCloudfront
    \/ LoopTop
    \/ HandleResetWith(OkEnv)
    \/ HandleUnregisterWith(OkEnv)
    \/ HandleInitCfrWith({"Deployed"}, {"InProgress", NoDist})
    \/ HandlePauseTimerWith(OkEnv)
    \/ HandlePeriodTimer
    \/ FinishTestWith(SomeProbes(h), OkEnv)
    \/ PausedResetWith(OkEnv)
    \/ PausedUnregister
    \/ FirePeriodTimer
    \/ FirePauseTimer
    \/ Tick

SpecSignals == InitStatus /\ [][NextSignals]_vars

(* The paused side: one status() caller and one signal at a time against   *)
(* the run loop of a peer or a fallback; the provider and the groups never *)
(* fail.                                                                   *)
NextPaused ==
    \/ CallStatus(1)
    \/ StatusReply(1)
    \/ StatusTimedOut(1)
    \/ \E n \in Names : Quiet /\ CallReset(n)
    \/ Quiet /\ CallUnregister
    \/ Quiet /\ CallInitCloudfront
    \/ LoopTop
    \/ HandleResetWith(OkEnv)
    \/ HandleUnregisterWith(OkEnv)
    \/ HandleInitCfrWith({"Deployed"}, {"Deployed", NoDist})
    \/ HandlePauseTimerWith(OkEnv)
    \/ HandlePeriodTimer
    \/ FinishTestWith(SomeProbes(h), OkEnv)
    \/ PausedResetWith(OkEnv)
    \/ PausedUnregister
    \/ FirePeriodTimer
    \/ FirePauseTimer
    \/ Tick

SpecPaused == InitBoth /\ [][NextPaused]_vars

(* The senders: reset(), unregister() and initCloudfront() callers that    *)
(* can find their channel full, against the run loop of a peer that keeps  *)
(* its name.                                                               *)
NextSenders ==
    \/ CallReset("p1")
    \/ CallUnregister
    \/ CallInitCloudfront
    \/ LoopTop
    \/ HandleResetWith(OkEnv)
    \/ HandleUnregisterWith(OkEnv)
    \/ HandleInitCfrWith({"Deployed"}, {"InProgress", NoDist})
    \/ HandlePauseTimerWith(OkEnv)
    \/ HandlePeriodTimer
    \/ FinishTestWith(SomeProbes(h), OkEnv)
    \/ PausedResetWith(OkEnv)
    \/ PausedUnregister
    \/ FirePeriodTimer
    \/ FirePauseTimer
    \/ Tick

SpecSenders == InitStatus /\ [][NextSenders]_vars

----------------------------------------------------------------------------
(* Steps of the run loop, as seen in a pair of states.                     *)

TestStep == pc = "testing" /\ pc' = "top"

PauseStep == pc = "select" /\ pc' = "paused"

ResetStep == pc \in {"select", "paused"} /\ pc' = "top" /\ act' \in {"reset", "unpause"}

Deployed(hh) == hh.cfrDist # NoDist /\ hh.cfrDist = "Deployed"

----------------------------------------------------------------------------
(* C1: class asymmetry.  While the host's name is a fallback name, no test *)
(* cycle, pause-timer pause or unregister turns cdnRecord or noCdnRecord   *)
(* from non-nil to nil; a host with a peer name that enters Paused is in   *)
(* none of its rotation groups and, when the provider's destroy call       *)
(* succeeded, has a nil cdnRecord.                                         *)
C1_ClassAsymmetry ==
    [][/\ (isFallback(h) /\ ~ResetStep) =>
             /\ h.cdnRecord # NoRec => h'.cdnRecord # NoRec
             /\ h.noCdnRecord # NoRec => h'.noCdnRecord # NoRec
       /\ (PauseStep /\ ~isFallback(h)) =>
             /\ rot' \cap (h.cdnGroups \cup h.noCdnGroups) = {}
             /\ "destroyCdnErr" \notin log' => h'.cdnRecord = NoRec]_vars

(* A fallback paused by the pause timer that still holds both records.     *)
C1_Witness ==
    /\ pc = "paused" /\ act = "pauseTimer"
    /\ isFallback(h) /\ h.cdnGroups = {RoundRobin, Fallbacks}
    /\ h.cdnRecord # NoRec /\ h.noCdnRecord # NoRec
    /\ rot = {}

(* C3: a successful test cycle sets lastSuccess to now and registers: when *)
(* no call returned an error other than the duplicate condition, the CDN   *)
(* record is held or was reported as already existing and the host is in   *)
(* all its CDN groups; the no-CDN record and groups are ensured in the     *)
(* cycle if and only if the distribution is Deployed.                      *)
C3_SuccessRegisters ==
    [][(TestStep /\ lastStatus' = <<Status(TRUE, FALSE)>>) =>
          /\ h'.lastSuccess = 0
          /\ "registerErr" \notin log' =>
                /\ h'.cdnRecord # NoRec \/ "createCdnDup" \in log'
                /\ h.cdnGroups \subseteq rot'
                /\ Deployed(h) =>
                      /\ h'.noCdnRecord # NoRec \/ "createNoCdnDup" \in log'
                      /\ h.noCdnGroups \subseteq rot'
          /\ ~Deployed(h) =>
                /\ "createNoCdn" \notin log'
                /\ h'.noCdnRecord = NoRec
                /\ rot' \cap h.noCdnGroups = {}]_vars

(* A successful cycle that created the no-CDN record of a Deployed host.   *)
C3_Witness ==
    /\ act = "test" /\ lastStatus = <<Status(TRUE, FALSE)>>
    /\ Deployed(h) /\ "createNoCdn" \in log /\ "registerErr" \notin log
    /\ h.cdnRecord # NoRec /\ h.noCdnRecord # NoRec
    /\ (h.cdnGroups \cup h.noCdnGroups) \subseteq rot

----------------------------------------------------------------------------
(* status() calls, as seen in a state or a pair of states.                 *)

Queued(c) == \E i \in 1..Len(statusCh) : statusCh[i] = c

Delivered(c) ==
    Len(calls[c].sch) + (IF calls[c].res # <<>> /\ ~calls[c].res[1].timedOut THEN 1 ELSE 0)

(* C2: a failed test cycle takes the host out of all its rotation groups,  *)
(* CDN and no-CDN, and leaves cdnRecord, noCdnRecord, name and lastSuccess *)
(* as they were; the status of a connection-refused cycle reaches the      *)
(* queued status() callers, who return (false, true, false).               *)
C2_FailedCycle ==
    [][/\ (TestStep /\ ~lastStatus'[1].online) =>
             /\ rot' \cap (h.cdnGroups \cup h.noCdnGroups) = {}
             /\ h'.cdnRecord = h.cdnRecord
             /\ h'.noCdnRecord = h.noCdnRecord
             /\ h'.name = h.name
             /\ h'.lastSuccess = h.lastSuccess
       /\ \A c \in CallIds :
             /\ (TestStep /\ lastStatus' = <<Status(FALSE, TRUE)>> /\ Queued(c)) =>
                   calls'[c].sch = <<Status(FALSE, TRUE)>>
             /\ (calls[c].sch = <<Status(FALSE, TRUE)>> /\ calls'[c].sch = <<>>) =>
                   calls'[c].res = <<Result(FALSE, TRUE, FALSE)>>]_vars

(* A refused cycle of a host holding both records, reported to a caller.   *)
C2_Witness ==
    /\ act = "test" /\ lastStatus = <<Status(FALSE, TRUE)>>
    /\ h.cdnRecord # NoRec /\ h.noCdnRecord # NoRec
    /\ rot = {}
    /\ calls[1].res = <<Result(FALSE, TRUE, FALSE)>>

(* C5 as stated: a status() call whose window has passed has returned      *)
(* (false, false, true) unless a status was delivered to it, and a call    *)
(* that returned timedOut although a status was delivered to it returned   *)
(* at the end of its window.                                               *)
C5_StatusTimesOut ==
    \A c \in CallIds :
        /\ (calls[c].age > StatusTimeout /\ Delivered(c) = 0) =>
              calls[c].res = <<Result(FALSE, FALSE, TRUE)>>
        /\ (calls[c].res = <<Result(FALSE, FALSE, TRUE)>> /\ calls[c].sch # <<>>) =>
              calls[c].age >= StatusTimeout

(* C6: when a test cycle finishes, every request in the status queue, and  *)
(* every request the drain of a full queue lets in, gets that cycle's      *)
(* status; the queue is empty afterwards; no request is ever answered      *)
(* twice.                                                                  *)
C6_FanOut ==
    [][/\ TestStep =>
             /\ statusCh' = <<>>
             /\ \A c \in CallIds :
                   (Queued(c) \/ calls[c].st = "blocked") =>
                       calls'[c].sch = Append(calls[c].sch, lastStatus'[1])
       /\ \A c \in CallIds : Delivered(c)' <= 1]_vars

(* Two pending requests answered by the same cycle.                        *)
C6_Witness ==
    /\ act = "test" /\ lastStatus # <<>>
    /\ \A c \in {1, 2} : calls[c].st = "waiting" /\ calls[c].sch = lastStatus

(* C7 as stated: no status() call ever blocks on the enqueue, and every    *)
(* call returns within statusTimeout of being made.                        *)
C7_FullQueueDrops ==
    \A c \in CallIds : calls[c].st # "blocked" /\ calls[c].age <= StatusTimeout

(* C8 as stated: no reset() call is ever blocked on its send, and at most  *)
(* one unregister signal is pending.                                       *)
C8_SendersNeverBlock ==
    resetBlocked = <<>> /\ unregisterCh <= UnregisterCap

(* C9 as stated: a pause begun by the pause timer begins when at least     *)
(* pauseAfter has passed since lastSuccess.                                *)
C9_GenuineExpiry ==
    [][(PauseStep /\ act' = "pauseTimer") => h.lastSuccess >= PauseAfter]_vars

(* C10: a paused run loop starts no test cycle; while it stays paused the  *)
(* host, the provider's records and the groups stay as they are, no status *)
(* or distribution-init request is consumed, and an unregister signal is   *)
(* consumed without any other change; it leaves Paused only by consuming a *)
(* reset, which sets the name, lastSuccess = now and lastTest = never and  *)
(* destroys the old name's records on a rename.                            *)
C10_Paused ==
    [][pc = "paused" =>
          /\ pc' \in {"paused", "top"}
          /\ pc' = "paused" =>
                /\ [h' EXCEPT !.lastSuccess = 0, !.lastTest = 0] =
                   [h EXCEPT !.lastSuccess = 0, !.lastTest = 0]
                /\ dns' = dns /\ rot' = rot /\ lastStatus' = lastStatus
                /\ Len(statusCh') >= Len(statusCh)
                /\ SubSeq(statusCh', 1, Len(statusCh)) = statusCh
                /\ initCfrCh' >= initCfrCh
                /\ periodC => periodC'
                /\ unregisterCh' < unregisterCh =>
                      UNCHANGED <<h, resetCh, statusCh, initCfrCh, calls, checkImmediately,
                                  periodTimer, periodC, pauseTimer, pauseC, log>>
          /\ pc' = "top" =>
                /\ resetCh # <<>> /\ resetCh' = Tail(resetCh)
                /\ h'.name = Head(resetCh)
                /\ h'.lastSuccess = 0 /\ h'.lastTest = Never
                /\ statusCh' = statusCh /\ initCfrCh' = initCfrCh /\ rot' = rot
                /\ IF Head(resetCh) # h.name /\ h.cdnRecord # NoRec
                   THEN /\ "destroyCdn" \in log'
                        /\ "destroyCdnErr" \notin log' => h'.cdnRecord = NoRec
                   ELSE h'.cdnRecord = h.cdnRecord /\ dns' = dns]_vars

(* A paused host that ignored an unregister while a status request and a   *)
(* distribution-init request wait.                                         *)
C10_Witness ==
    /\ pc = "paused" /\ act = "ignoreUnregister"
    /\ statusCh # <<>> /\ initCfrCh > 0

----------------------------------------------------------------------------
(* The run loop is back from pause() and has handled nothing since.        *)
Resumed == pc \in {"top", "select"} /\ act = "unpause"

NoSignal == resetCh = <<>> /\ unregisterCh = 0 /\ initCfrCh = 0

(* C11 as stated: once resumed from Paused, with no signal pending, the    *)
(* loop's next test is due at once: the period timer has fired or is       *)
(* firing, so the select does not wait out an earlier arming of it.        *)
C11_ResumeTestsAtOnce ==
    (Resumed /\ pc = "select" /\ NoSignal) => (periodC \/ periodTimer = 0)

(* The select takes the period timer's value: a test cycle starts.         *)
TestStart == pc # "testing" /\ pc' = "testing"

(* C12 as stated: a test cycle starts only from the select, on the period  *)
(* timer's value; a cycle that follows another with no reset and no pause  *)
(* in between starts at least testPeriod after the first one's lastTest;   *)
(* a reset handled in Active leaves lastTest at the never value.           *)
C12_RateLimit ==
    [][/\ TestStart => (pc = "select" /\ periodC)
       /\ (TestStart /\ ~checkImmediately /\ h.lastTest # Never) =>
              h.lastTest >= testPeriod
       /\ (ResetStep /\ pc = "select") => h'.lastTest = Never]_vars

----------------------------------------------------------------------------
(* Signals whose order of delivery is known: unregister() is called only   *)
(* while no reset is pending, so a reset pending together with an          *)
(* unregister was delivered after it.                                      *)
NextOrder ==
    \/ \E n \in Names : Len(resetCh) < ResetCap /\ CallReset(n)
    \/ resetCh = <<>> /\ CallUnregister
    \/ initCfrCh < InitCfrCap /\ CallInitCloudfront
    \/ LoopTop
    \/ HandleResetWith(OkEnv)
    \/ HandleUnregisterWith(OkEnv)
    \/ HandleInitCfrWith({"Deployed"}, {"InProgress", NoDist})
    \/ HandlePauseTimerWith(OkEnv)
    \/ HandlePeriodTimer
    \/ FinishTestWith(SomeProbes(h), OkEnv)
    \/ PausedResetWith(OkEnv)
    \/ PausedUnregister
    \/ FirePeriodTimer
    \/ FirePauseTimer
    \/ Tick

SpecOrder == InitStatus /\ [][NextOrder]_vars

(* C13 as stated: signals are handled in the order of their delivery, so   *)
(* no reset is handled, in run() or in pause(), while an unregister        *)
(* delivered before it is still pending.                                   *)
C13_DeliveryOrder ==
    [][ResetStep => unregisterCh = 0]_vars

----------------------------------------------------------------------------
(* The DNS side of a host that starts with no record, at a provider that   *)
(* holds none: every record there is one this host created.                *)
SpecOwnDns == InitBoth /\ [][NextDns]_vars

(* C14 as stated: at every select of the run loop, cdnRecord is non-nil    *)
(* exactly when the host's current name is registered with the provider.   *)
C14_RecordIffRegistered ==
    pc = "select" => (h.cdnRecord # NoRec <=> CdnName(h.name) \in dns)

----------------------------------------------------------------------------
(* A provider and groups that answer a registration with success or with   *)
(* the duplicate condition.                                                *)
IdemEnvs == {e \in RegEnvs : e.cdnReg = "ok" /\ e.noCdnReg = "ok" /\ e.grpErr = {}}

ErrorEvents == {"createCdnErr", "createNoCdnErr", "groupErr"}

(* C15: register() run again right after a run that returned no error,     *)
(* against a provider and groups that answer success or duplicate, returns *)
(* no error and leaves the provider's records, the handles and the         *)
(* rotation memberships as the first run left them; register() returns an  *)
(* error only when a call returned an error other than the duplicate one.  *)
C15_IdempotentRegister ==
    [][(TestStep /\ lastStatus'[1].online) =>
          /\ "registerErr" \in log' => log' \cap ErrorEvents # {}
          /\ "registerErr" \notin log' =>
                \A e \in IdemEnvs :
                    LET w2 == register(World(h', dns', rot'), e)
                    IN /\ w2.err = Nil
                       /\ w2.h = h'
                       /\ w2.dns = dns'
                       /\ w2.rot = rot']_vars

(* A registration whose create call was answered with the duplicate        *)
(* condition and that returned no error.                                   *)
C15_Witness ==
    /\ act = "test" /\ lastStatus = <<Status(TRUE, FALSE)>>
    /\ "createCdnDup" \in log /\ "registerErr" \notin log
    /\ CdnName(h.name) \in dns
    /\ h.cdnGroups \subseteq rot

----------------------------------------------------------------------------
(* C16: a probe whose dial and proxied HEAD succeed (200 or 301) while the *)
(* reported host differs from the full name of the host's current name     *)
(* gives the status (false, false); a test cycle that ends this way leaves *)
(* lastSuccess and the records alone, calls no create and takes the host   *)
(* out of all its rotation groups.                                         *)
C16_StickyRouting ==
    [][TestStep =>
          /\ \A a \in Attempts :
                (a.dial = "ok" /\ a.code \in {200, 301} /\ a.reported # fullName(h.name)) =>
                    isAbleToProxy(h, [i \in 1..proxyAttempts |-> a]) = Status(FALSE, FALSE)
          /\ "unexpectedHost" \in log' =>
                /\ lastStatus' = <<Status(FALSE, FALSE)>>
                /\ h'.lastSuccess = h.lastSuccess
                /\ h'.cdnRecord = h.cdnRecord /\ h'.noCdnRecord = h.noCdnRecord
                /\ dns' = dns
                /\ log' = {"unexpectedHost"}
                /\ rot' \cap (h.cdnGroups \cup h.noCdnGroups) = {}]_vars

(* A renamed host, registered and in rotation, whose probe reported a      *)
(* host other than its current full name.                                  *)
C16_Witness ==
    /\ act = "test" /\ "unexpectedHost" \in log
    /\ lastStatus = <<Status(FALSE, FALSE)>>
    /\ h.cdnRecord # NoRec
    /\ rot = {}

----------------------------------------------------------------------------
(* C17: noCdnRecord is non-nil only for a host whose distribution is       *)
(* Deployed (a status the host never leaves once it has it), and a no-CDN  *)
(* create call is issued only in a cycle in which it is Deployed.          *)
C17_NoCdnNeedsDeployed ==
    /\ h.noCdnRecord # NoRec => Deployed(h)
    /\ "createNoCdn" \in log => Deployed(h)

(* A no-CDN record just created for a host whose distribution was created  *)
(* by this host and became Deployed.                                       *)
C17_Witness ==
    /\ "createNoCdn" \in log /\ "createNoCdnDup" \notin log
    /\ h.noCdnRecord = NoCdnName(h.name)
    /\ h.noCdnRecord \in dns
    /\ h.cfrDist = "Deployed"

----------------------------------------------------------------------------
(* The class that chose the host's rotation groups in newHost.             *)
BuiltAsFallback(hh) == hh.cdnGroups = {RoundRobin, Fallbacks}

(* C18 as stated: the class isFallback() answers with is always the class  *)
(* that chose the rotation groups at construction, so a host built as a    *)
(* peer that holds a record when it pauses has its destroy call made.      *)
C18_ClassFixed ==
    [][/\ isFallback(h') <=> BuiltAsFallback(h')
       /\ (PauseStep /\ ~BuiltAsFallback(h) /\ h.cdnRecord # NoRec) =>
              "destroyCdn" \in log']_vars

----------------------------------------------------------------------------
(* C19: a create of the CDN record that fails with another error than the  *)
(* duplicate one leaves cdnRecord nil and makes register() return the      *)
(* error with no rotation registration and no no-CDN registration in that  *)
(* cycle; a successful cycle of a host with a nil cdnRecord calls the      *)
(* create again; a destroy that fails leaves its handle as it was, and a   *)
(* later pause of a peer calls destroy for it again; the loop goes on.     *)
C19_ProviderErrors ==
    [][/\ (TestStep /\ "createCdnErr" \in log') =>
             /\ h'.cdnRecord = NoRec /\ h'.noCdnRecord = h.noCdnRecord
             /\ "registerErr" \in log' /\ "createNoCdn" \notin log'
             /\ rot' = rot /\ dns' = dns
             /\ pc' = "top"
       /\ (TestStep /\ lastStatus'[1].online /\ h.cdnRecord = NoRec) =>
             "createCdn" \in log'
       /\ ((PauseStep \/ ResetStep) /\ "destroyCdnErr" \in log') =>
             /\ h.cdnRecord # NoRec /\ h'.cdnRecord = h.cdnRecord
             /\ h.cdnRecord \in dns => h.cdnRecord \in dns'
             /\ pc' \in {"paused", "top"}
       /\ ((PauseStep \/ ResetStep) /\ "destroyNoCdnErr" \in log') =>
             /\ h.noCdnRecord # NoRec /\ h'.noCdnRecord = h.noCdnRecord
             /\ pc' \in {"paused", "top"}
       /\ (PauseStep /\ ~isFallback(h) /\ h.cdnRecord # NoRec) =>
             "destroyCdn" \in log']_vars

(* A successful test whose create call failed: no record, no membership.   *)
C19_Witness ==
    /\ act = "test" /\ lastStatus = <<Status(TRUE, FALSE)>>
    /\ "createCdnErr" \in log /\ "registerErr" \in log
    /\ h.cdnRecord = NoRec /\ rot = {}
    /\ pc = "top"

----------------------------------------------------------------------------
(* C20: a test cycle whose probe has not returned when ttl has passed ends *)
(* then with the status (false, false): the status goes to the queued      *)
(* status() calls, lastTest is set to now, the host leaves its rotation    *)
(* groups, its records and lastSuccess stay, and the loop is back at its   *)
(* top; no test cycle lasts longer than ttl.                               *)
C20_HungProbe ==
    [][/\ (TestStep /\ "timedOut" \in log') =>
             /\ elapsed = ttl
             /\ lastStatus' = <<Status(FALSE, FALSE)>>
             /\ \A c \in CallIds :
                   Queued(c) => calls'[c].sch = Append(calls[c].sch, Status(FALSE, FALSE))
             /\ statusCh' = <<>>
             /\ h' = [h EXCEPT !.lastTest = 0]
             /\ dns' = dns
             /\ rot' \cap (h.cdnGroups \cup h.noCdnGroups) = {}
             /\ log' = {"timedOut"}
             /\ pc' = "top"
       /\ pc' = "testing" => elapsed' <= ttl]_vars

(* A probe that hung past ttl while a status() call was waiting: the call  *)
(* has its (false, false) status and the host, registered, is out of       *)
(* rotation.                                                               *)
C20_Witness ==
    /\ act = "test" /\ "timedOut" \in log
    /\ lastStatus = <<Status(FALSE, FALSE)>>
    /\ calls[1].sch = <<Status(FALSE, FALSE)>>
    /\ h.cdnRecord # NoRec /\ rot = {}
    /\ h.lastTest = 0

----------------------------------------------------------------------------
(* The step that handles a distribution-init signal.                       *)
InitCfrStep == pc = "select" /\ pc' = "top" /\ act' = "initCfr"

CreateEvents == {"createDist", "createDistErr"}

(* C21: distribution lifecycle.  Handling a distribution-init signal       *)
(* refreshes the status exactly when a handle exists with status           *)
(* InProgress, and attempts a creation exactly when no handle exists, so a *)
(* signal handled after a failed creation tries again; a failed creation   *)
(* leaves the handle unset, every other host field, the records and the    *)
(* memberships unchanged and the loop back at its top; a successful        *)
(* creation stores the handle; a stored handle is never cleared, and       *)
(* no creation is made while one is stored, so that at most one            *)
(* distribution is created per host; the handle and its status change in   *)
(* no other step.                                                          *)
C21_DistLifecycle ==
    [][/\ InitCfrStep =>
             /\ "refreshDist" \in log' <=> (h.cfrDist # NoDist /\ h.cfrDist = "InProgress")
             /\ (log' \cap CreateEvents # {}) <=> h.cfrDist = NoDist
             /\ "createDistErr" \in log' =>
                   /\ h'.cfrDist = NoDist
                   /\ h' = h
                   /\ dns' = dns /\ rot' = rot
                   /\ pc' = "top"
             /\ "createDist" \in log' =>
                   /\ h'.cfrDist # NoDist
                   /\ h' = [h EXCEPT !.cfrDist = h'.cfrDist]
             /\ log' \cap CreateEvents = {} => h' = [h EXCEPT !.cfrDist = h'.cfrDist]
       /\ h.cfrDist # NoDist => h'.cfrDist # NoDist
       /\ h'.cfrDist # h.cfrDist => InitCfrStep]_vars

(* A distribution that was created and then, at a later signal, refreshed  *)
(* to Deployed.                                                            *)
C21_Witness ==
    /\ act = "initCfr" /\ pc = "top"
    /\ log = {"refreshDist"}
    /\ h.cfrDist = "Deployed"

----------------------------------------------------------------------------
(* sch := make(chan *status, 1)                                            *)
ReplyCap == 1

Enqueued(c) == Cardinality({i \in 1..Len(statusCh) : statusCh[i] = c})

(* C22: the fan-out never blocks the actor.  No reply channel ever holds   *)
(* more than its capacity of 1; a reply channel is in the queue at most    *)
(* once and enters it only when its call is made; a status is sent on a    *)
(* reply channel only by a test cycle's fan-out, at most once over the     *)
(* channel's lifetime and only while the channel is empty, so the send     *)
(* does not wait, also when the caller has already timed out and reads no  *)
(* more; the fan-out ends with the queue empty, no sender left waiting on  *)
(* it and the loop back at its top.                                        *)
C22_FanOutNeverBlocks ==
    [][\A c \in CallIds :
         /\ Len(calls[c].sch) <= ReplyCap /\ Len(calls'[c].sch) <= ReplyCap
         /\ Enqueued(c) <= 1 /\ Enqueued(c)' <= 1
         /\ (~Queued(c) /\ Queued(c)') => calls[c].st = "new"
         /\ Len(calls'[c].sch) > Len(calls[c].sch) =>
               /\ TestStep
               /\ Queued(c) \/ calls[c].st = "blocked"
               /\ Len(calls[c].sch) < ReplyCap
               /\ Delivered(c) = 0
               /\ calls'[c].sch = lastStatus'
         /\ (TestStep /\ (Queued(c) \/ calls[c].st = "blocked")) =>
               /\ Len(calls[c].sch) < ReplyCap
               /\ calls'[c].sch = lastStatus'
         /\ (TestStep /\ Queued(c) /\ calls[c].st = "done") => calls'[c].st = "done"
         /\ TestStep =>
               /\ statusCh' = <<>>
               /\ calls'[c].st # "blocked"
               /\ pc' = "top"]_vars

(* A status sent on the reply channel of a caller that had timed out: the  *)
(* channel holds it and the loop is back at its top.                       *)
C22_Witness ==
    /\ act = "test" /\ pc = "top" /\ lastStatus # <<>>
    /\ \E c \in CallIds :
          /\ calls[c].st = "done"
          /\ calls[c].res = <<Result(FALSE, FALSE, TRUE)>>
          /\ calls[c].sch = lastStatus
    /\ statusCh = <<>>

----------------------------------------------------------------------------
(* C23 as stated: the provider's destroy operation is called with an       *)
(* existing record handle only.  On a pause, an unregister and a reset, a  *)
(* destroy of the CDN record is made only while cdnRecord is non-nil, a    *)
(* destroy of the no-CDN record only while noCdnRecord is non-nil, and no  *)
(* destroy is made with a nil handle, also when a rename is handled while  *)
(* cdnRecord is set and noCdnRecord is not.                                *)
C23_DestroyNeedsHandle ==
    [][(PauseStep \/ ResetStep) =>
          /\ "destroyCdn" \in log' => h.cdnRecord # NoRec
          /\ "destroyNoCdn" \in log' => h.noCdnRecord # NoRec
          /\ "destroyNil" \notin log']_vars

====
